---- MODULE Spec2Model ----
(***************************************************************************)
(* A model of the software rasterizer in src/src/canvas.rs and             *)
(* src/src/color.rs: the Canvas (width, height, row-major RGB buffer), its *)
(* pixel operations and its drawing operations.                            *)
(*                                                                         *)
(* Every drawing operation is modelled as the sequence of draw_pixel calls *)
(* it makes, computed step by step as the code computes it, folded over    *)
(* the buffer.  A Rust panic (unwrap on None, index out of range) is a     *)
(* result of its own: the call records "panic" and the program stops.      *)
(***************************************************************************)
EXTENDS Integers, Sequences, FiniteSets, TLC

VARIABLES
    width,      \* Canvas.width
    height,     \* Canvas.height
    buffer,     \* Canvas.buffer: Seq(RGB), pixel (x, y) at index y*width + x + 1
    calls,      \* number of calls made on the canvas since construction
    op,         \* name of the last call ("new" after construction)
    args,       \* arguments of the last call
    ret,        \* what the last call returned: [tag, val]
    before,     \* the buffer as it was when the last call started
    drawn       \* the (x, y) the last call handed to draw_pixel, in order

vars == <<width, height, buffer, calls, op, args, ret, before, drawn>>

---------------------------------------------------------------------------
(* Bounds of the model.                                                    *)

\* calls per run of the canvas state machine
MaxCalls == 2
\* width and height of the canvas of the state machine Spec
CanvasW == 3
CanvasH == 2
\* coordinates reach this far outside the canvas on every side
Margin == 1
\* the largest radius of the circles of DrawSpec and CircleSpec
MaxR == 2
MaxLineWidth == 2
LineSide == 4
\* width and height of the canvas of CircleSpec
CircleSide == 5
\* width and height of the small canvas of PolygonSpec
PolySide == 3

---------------------------------------------------------------------------
(* color.rs                                                                *)

RGB(r, g, b) == [r |-> r, g |-> g, b |-> b]
RGBA(r, g, b, a) == [r |-> r, g |-> g, b |-> b, a |-> a]

BLACK == RGBA(0, 0, 0, 255)
TRANSPARANT == RGBA(0, 0, 0, 0)

\* RGBA::to_rgb: the RGB part and the alpha
to_rgb(c) == <<RGB(c.r, c.g, c.b), c.a>>

\* lerp with the weights of self and other exchanged
lerp_channel_swapped(s, o, alpha) == (alpha * s + (255 - alpha) * o) \div 255

\* One channel of RGB::lerp with a = alpha / 255.0:
\*   ((1.0 - a) * s as f32 + a * o as f32) as u8
\* The cast truncates.  For alpha in 0..64, the even alphas up to 126, and
\* 255, the f32 evaluation equals the exact quotient below for every pair of
\* channel values; the model draws alpha from these values only.
lerp_channel(s, o, alpha) == ((255 - alpha) * s + alpha * o) \div 255

\* RGB::lerp(self, other, a) with a = alpha / 255.0
lerp(self, other, alpha) ==
    RGB(lerp_channel(self.r, other.r, alpha),
        lerp_channel(self.g, other.g, alpha),
        lerp_channel(self.b, other.b, alpha))

\* RGB::add_rgba
add_rgba(self, other) ==
    LET p == to_rgb(other) IN lerp(self, p[1], p[2])

---------------------------------------------------------------------------
(* Results of a call: Option<T>, (), or a panic.                           *)

Black == RGB(0, 0, 0)

None == [tag |-> "none", val |-> Black]
Some(v) == [tag |-> "some", val |-> v]
Unit == [tag |-> "unit", val |-> Black]
Panic == [tag |-> "panic", val |-> Black]

---------------------------------------------------------------------------
(* canvas.rs: the pixel buffer                                             *)

\* Canvas::new: vec![RGB {0,0,0}; width * height]
new(w, h) == [i \in 1..(w * h) |-> Black]

\* Canvas::pixel_inside
pixel_inside(w, h, x, y) == x >= 0 /\ x < w /\ y >= 0 /\ y < h

\* Canvas::get: self.buffer.get(y * self.width + x)
get(buf, w, x, y) ==
    LET i == y * w + x
    IN  IF i < Len(buf) THEN Some(buf[i + 1]) ELSE None

\* set with x and y exchanged in the index
set_transposed(buf, w, x, y, color) ==
    IF x * w + y < Len(buf) THEN [buf EXCEPT ![x * w + y + 1] = color] ELSE buf

\* Canvas::set: the buffer after  *self.buffer.get_mut(y * self.width + x)? = color
set(buf, w, x, y, color) ==
    LET i == y * w + x
    IN  IF i < Len(buf) THEN [buf EXCEPT ![i + 1] = color] ELSE buf

\* Canvas::set: its return value
set_ret(buf, w, x, y) ==
    LET i == y * w + x
    IN  IF i < Len(buf) THEN Some(Black) ELSE None

\* fill with one row only
fill_row(w, h, color) == [i \in 1..w |-> color]

\* Canvas::fill: vec![color; self.width * self.height]
fill(w, h, color) == [i \in 1..(w * h) |-> color]

\* Canvas::draw_pixel: the buffer after the call
draw_pixel(buf, w, h, x, y, color) ==
    IF ~pixel_inside(w, h, x, y)
    THEN buf
    ELSE LET old == get(buf, w, x, y)
         IN  IF old.tag = "none"
             THEN buf
             ELSE set(buf, w, x, y, add_rgba(old.val, color))

\* Canvas::draw_pixel: its return value
draw_pixel_ret(buf, w, h, x, y) ==
    IF ~pixel_inside(w, h, x, y)
    THEN None
    ELSE IF get(buf, w, x, y).tag = "none" THEN None ELSE set_ret(buf, w, x, y)

\* A drawing operation's draw_pixel calls, one after the other: those of the
\* first half of the sequence, then those of the second half.  A buffer
\* without pixels takes none.
RECURSIVE draw_pixels(_, _, _, _, _)
draw_pixels(buf, w, h, pixels, color) ==
    IF pixels = <<>> \/ buf = <<>> THEN buf
    ELSE IF Len(pixels) = 1
         THEN draw_pixel(buf, w, h, pixels[1][1], pixels[1][2], color)
    ELSE draw_pixels(
             draw_pixels(buf, w, h, SubSeq(pixels, 1, Len(pixels) \div 2), color),
             w, h, SubSeq(pixels, Len(pixels) \div 2 + 1, Len(pixels)), color)

\* u32 << k: the low 32 - k bits of v move up, the bits above them are lost
Shl(v, k) == (v % 2^(32 - k)) * 2^k

\* u32 | u32, bit by bit
RECURSIVE BitOr(_, _)
BitOr(v, u) ==
    IF v = 0 THEN u
    ELSE IF u = 0 THEN v
    ELSE (IF v % 2 = 1 \/ u % 2 = 1 THEN 1 ELSE 0) + 2 * BitOr(v \div 2, u \div 2)

\* the channels packed with blue at the top: (c.b as u32) << 16 | ... | c.r
pack_bgr(c) == BitOr(BitOr(Shl(c.b, 16), Shl(c.g, 8)), c.r)

\* (c.r as u32) << 16 | (c.g as u32) << 8 | (c.b as u32)
pack(c) == BitOr(BitOr(Shl(c.r, 16), Shl(c.g, 8)), c.b)

\* Canvas::buffer_u32: self.buffer.iter().map(pack).collect()
buffer_u32(buf) == [i \in 1..Len(buf) |-> pack(buf[i])]

---------------------------------------------------------------------------
(* IEEE-754 binary32 arithmetic, as far as clamp_line_coords uses it.      *)
(* A finite f32 is [s, m, e] with value s * m * 2^e, s in {1, -1}, and     *)
(* m = 0 (zero) or 2^23 <= m < 2^24.  Results are rounded to nearest, ties *)
(* to even.  Infinities and NaN arise only from a division by zero, which  *)
(* the caller decides on its own.                                          *)

F32Zero == [s |-> 1, m |-> 0, e |-> 0]

Abs(n) == IF n < 0 THEN 0 - n ELSE n
Sign(n) == IF n < 0 THEN 0 - 1 ELSE 1

\* m * 2^e with m shifted up into 2^23 .. 2^24 - 1 (exact)
RECURSIVE F32ShiftUp(_, _, _)
F32ShiftUp(s, m, e) ==
    IF m >= 8388608 THEN [s |-> s, m |-> m, e |-> e]
    ELSE F32ShiftUp(s, 2 * m, e - 1)

\* the number of low bits to drop from m to bring it under 2^24
RECURSIVE F32Excess(_)
F32Excess(m) == IF m < 16777216 THEN 0 ELSE 1 + F32Excess(m \div 2)

\* The f32 nearest to s * (m + d) * 2^e, where 0 < d < 1 if sticky and
\* d = 0 if not (a sticky m is at least 2^24: the callers see to it).
\* s * q * 2^e, one unit in the last place further from zero if up
F32RoundTo(s, q, e, up) ==
    IF ~up THEN [s |-> s, m |-> q, e |-> e]
    ELSE IF q + 1 = 16777216 THEN [s |-> s, m |-> 8388608, e |-> e + 1]
    ELSE [s |-> s, m |-> q + 1, e |-> e]

\* m without its k low bits: up if they are more than half a unit, or half
\* a unit and the kept bits are odd
F32Drop(s, m, e, sticky, k) ==
    F32RoundTo(s, m \div (2 ^ k), e + k,
               \/ m % (2 ^ k) > 2 ^ (k - 1)
               \/ /\ m % (2 ^ k) = 2 ^ (k - 1)
                  /\ (sticky \/ (m \div (2 ^ k)) % 2 = 1))

F32Round(s, m, e, sticky) ==
    IF m = 0 THEN F32Zero
    ELSE IF m < 16777216 THEN F32ShiftUp(s, m, e)
    ELSE F32Drop(s, m, e, sticky, F32Excess(m))

\* n as f32 (n small: exact)
F32FromInt(n) == F32Round(Sign(n), Abs(n), 0, FALSE)

F32Neg(a) == [a EXCEPT !.s = 0 - a.s]

\* a * (n as f32), |n| < 128
F32MulInt(a, n) == F32Round(a.s * Sign(n), a.m * Abs(n), a.e, FALSE)

\* a + b, with a.e >= b.e and neither zero: both are written with three more
\* bits; the bits of b that fall below them are kept as one sticky bit.
F32AddOrdered(a, b) ==
    LET d == a.e - b.e
        A == 8 * a.m
        t == d - 3
        B == IF d <= 3 THEN b.m * (2 ^ (3 - d))
             ELSE IF t >= 25 THEN 0
             ELSE b.m \div (2 ^ t)
        sticky == IF d <= 3 THEN FALSE
                  ELSE IF t >= 25 THEN TRUE
                  ELSE b.m % (2 ^ t) # 0
    IN  IF a.s = b.s
        THEN F32Round(a.s, A + B, a.e - 3, sticky)
        ELSE IF sticky
             THEN F32Round(a.s, A - B - 1, a.e - 3, TRUE)
             ELSE F32Round(a.s * Sign(A - B), Abs(A - B), a.e - 3, FALSE)

F32Add(a, b) ==
    IF a.m = 0 THEN b
    ELSE IF b.m = 0 THEN a
    ELSE IF a.e >= b.e THEN F32AddOrdered(a, b) ELSE F32AddOrdered(b, a)

F32Sub(a, b) == F32Add(a, F32Neg(b))

\* n more bits of the quotient of r / d (r < d), and the remainder left
RECURSIVE F32DivBits(_, _, _, _)
F32DivBits(q, r, d, n) ==
    IF n = 0 THEN <<q, r>>
    ELSE IF 2 * r >= d
         THEN F32DivBits(2 * q + 1, 2 * r - d, d, n - 1)
         ELSE F32DivBits(2 * q, 2 * r, d, n - 1)

\* a / b, b not zero
F32DivRound(s, qr, e) == F32Round(s, qr[1], e, qr[2] # 0)

F32Div(a, b) ==
    IF a.m = 0 THEN F32Zero
    ELSE F32DivRound(a.s * b.s,
                     F32DivBits(a.m \div b.m, a.m % b.m, b.m, 26),
                     a.e - b.e - 26)

\* a >= 0.0
F32Ge0(a) == a.m = 0 \/ a.s = 1

\* |a| < |b|, neither zero
F32MagLt(a, b) == a.e < b.e \/ (a.e = b.e /\ a.m < b.m)

\* a < b
F32Lt(a, b) ==
    IF a.m = 0 THEN b.m # 0 /\ b.s = 1
    ELSE IF b.m = 0 THEN a.s = 0 - 1
    ELSE IF a.s # b.s THEN a.s = 0 - 1
    ELSE IF a.s = 1 THEN F32MagLt(a, b) ELSE F32MagLt(b, a)

\* a.round() as isize: to the nearest integer, halves away from zero
F32RoundToInt(a) ==
    IF a.m = 0 THEN 0
    ELSE IF a.e >= 0 THEN a.s * a.m * (2 ^ a.e)
    ELSE IF 0 - a.e > 24 THEN 0
    ELSE LET k == 0 - a.e
             q == a.m \div (2 ^ k)
             rem == a.m % (2 ^ k)
         IN  a.s * (IF 2 * rem >= 2 ^ k THEN q + 1 ELSE q)

---------------------------------------------------------------------------
(* canvas.rs: lines                                                        *)

\* The result of clamp_line_coords: four coordinates, or a panic.
Clamped(x1, y1, x2, y2) ==
    [panic |-> FALSE, x1 |-> x1, y1 |-> y1, x2 |-> x2, y2 |-> y2]
ClampPanic == [panic |-> TRUE, x1 |-> 0, y1 |-> 0, x2 |-> 0, y2 |-> 0]

\* an intersection with a boundary line that passed its range test, rounded
\* (p.0.round() as isize, p.1.round() as isize)
RoundPoint(p) == <<F32RoundToInt(p[1]), F32RoundToInt(p[2])>>

\* v >= 0.0 && v < limit as f32
InRange(v, limit) == F32Ge0(v) /\ F32Lt(v, F32FromInt(limit))

\* squared distance of (x, y) to p
SqrDist(p, x, y) == (p[1] - x) * (p[1] - x) + (p[2] - y) * (p[2] - y)

\* the candidate an outside endpoint is replaced by
Closer(p1, p2, x, y) == IF SqrDist(p1, x, y) < SqrDist(p2, x, y) THEN p1 ELSE p2

ClampedPoints(q1, q2) == Clamped(q1[1], q1[2], q2[1], q2[2])

\* Canvas::clamp_line_coords, the vertical segment (dx == 0):
\* s_y0 = (x1, 0) and s_yh = (x1, self.width)
clamp_vertical(w, h, x1, y1, x2, y2, p1_inside, p2_inside) ==
    ClampedPoints(
        IF p1_inside THEN <<x1, y1>>
        ELSE IF y1 < 0 THEN <<x1, 0>> ELSE <<x1, w>>,
        IF p2_inside THEN <<x2, y2>>
        ELSE IF y2 < 0 THEN <<x1, 0>> ELSE <<x1, w>>)

\* an intersection p, if its coordinate i passes the range test
Intersect(p, i, limit) == IF InRange(p[i], limit) THEN <<p>> ELSE <<>>

\* The intersections of y = m * x + c with x = 0, x = width, y = 0 and
\* y = height that pass their range test, in this order.  With m = 0.0 the
\* last two are infinite or NaN: no range holds them.
valid_intersects(w, h, m, c) ==
    Intersect(<<F32Zero, c>>, 2, h)
    \o Intersect(<<F32FromInt(w), F32Add(c, F32MulInt(m, w))>>, 2, h)
    \o (IF m.m = 0 THEN <<>>
        ELSE Intersect(<<F32Div(F32Neg(c), m), F32Zero>>, 1, w))
    \o (IF m.m = 0 THEN <<>>
        ELSE Intersect(<<F32Div(F32Sub(F32FromInt(h), c), m), F32FromInt(h)>>,
                       1, w))

\* an endpoint outside the canvas is replaced by the closer of p1 and p2
clamp_replace(x1, y1, x2, y2, p1_inside, p2_inside, p1, p2) ==
    ClampedPoints(
        IF p1_inside THEN <<x1, y1>> ELSE Closer(p1, p2, x1, y1),
        IF p2_inside THEN <<x2, y2>> ELSE Closer(p1, p2, x2, y2))

\* p1 and p2 are the first two valid intersections, rounded;
\* valid_intersects.next().unwrap() panics on None
clamp_pick(x1, y1, x2, y2, p1_inside, p2_inside, valid) ==
    IF Len(valid) < 2
    THEN ClampPanic
    ELSE clamp_replace(x1, y1, x2, y2, p1_inside, p2_inside,
                       RoundPoint(valid[1]), RoundPoint(valid[2]))

\* the segment lies on y = m * x + c with c = y1 - m * x1
clamp_slope(w, h, x1, y1, x2, y2, p1_inside, p2_inside, m) ==
    clamp_pick(x1, y1, x2, y2, p1_inside, p2_inside,
               valid_intersects(w, h, m,
                   F32Sub(F32FromInt(y1), F32MulInt(m, x1))))

\* Canvas::clamp_line_coords, the general segment (dx != 0): m = dy / dx
clamp_sloped(w, h, x1, y1, x2, y2, p1_inside, p2_inside) ==
    clamp_slope(w, h, x1, y1, x2, y2, p1_inside, p2_inside,
                F32Div(F32FromInt(y2 - y1), F32FromInt(x2 - x1)))

\* Canvas::clamp_line_coords
clamp_line_coords(w, h, x1, y1, x2, y2) ==
    LET p1_inside == x1 >= 0 /\ x1 < w /\ y1 >= 0 /\ y1 < h
        p2_inside == x2 >= 0 /\ x2 < w /\ y2 >= 0 /\ y2 < h
    IN  IF p1_inside /\ p2_inside THEN Clamped(x1, y1, x2, y2)
        ELSE IF x2 - x1 = 0
             THEN clamp_vertical(w, h, x1, y1, x2, y2, p1_inside, p2_inside)
             ELSE clamp_sloped(w, h, x1, y1, x2, y2, p1_inside, p2_inside)

\* What a drawing operation does: the draw_pixel calls it makes, in order, and
\* whether it panics after them or never returns.
Pixels(seq) == [panic |-> FALSE, hang |-> FALSE, pixels |-> seq]
PanicAfter(seq) == [panic |-> TRUE, hang |-> FALSE, pixels |-> seq]
\* a loop of the operation does not end
Hang == [panic |-> FALSE, hang |-> TRUE, pixels |-> <<>>]

\* dy as f32 / dx as f32 <= 1.0 (dx = 0 gives inf or NaN, and false)
abs_m_le_1(dy, dx) ==
    /\ dx # 0
    /\ ~F32Lt(F32FromInt(1), F32Div(F32FromInt(dy), F32FromInt(dx)))

\* The midpoint loop shared by draw_line and polygon_buffer_line:
\*   for i in 1..=n { if p < 0 { p += a } else { offset += step; p += b } ... }
\* gives the value of offset after each of the n steps.
RECURSIVE midpoint_offsets(_, _, _, _, _, _)
midpoint_offsets(n, a, b, p, step, offset) ==
    IF n = 0 THEN <<>>
    ELSE IF p < 0
         THEN <<offset>> \o midpoint_offsets(n - 1, a, b, p + a, step, offset)
         ELSE <<offset + step>>
              \o midpoint_offsets(n - 1, a, b, p + b, step, offset + step)

\* the vertical line with its bottom endpoint: for i in 0..=(end_y - start_y)
line_vertical_closed(x1, y1, x2, y2) ==
    LET start_y == IF y1 < y2 THEN y1 ELSE y2
        end_y == IF y1 < y2 THEN y2 ELSE y1
    IN  [i \in 1..(end_y - start_y + 1) |-> <<x1, start_y + (i - 1)>>]

\* Canvas::draw_line after clamping, x1 == x2: for i in 0..(end_y - start_y)
line_vertical(x1, y1, x2, y2) ==
    LET start_y == IF y1 < y2 THEN y1 ELSE y2
        end_y == IF y1 < y2 THEN y2 ELSE y1
    IN  [i \in 1..(end_y - start_y) |-> <<x1, start_y + (i - 1)>>]

\* the pixels of a shallow line without the one drawn before the loop
shallow_points_open(start_x, start_y, offs) ==
    [i \in 1..Len(offs) |-> <<start_x + i, start_y + offs[i]>>]

\* the pixels of a shallow line: start, then one for each step in x
shallow_points(start_x, start_y, offs) ==
    <<<<start_x, start_y>>>>
    \o [i \in 1..Len(offs) |-> <<start_x + i, start_y + offs[i]>>]

\* the pixels of a steep line: start, then one for each step in y
steep_points(start_x, start_y, offs) ==
    <<<<start_x, start_y>>>>
    \o [i \in 1..Len(offs) |-> <<start_x + offs[i], start_y + i>>]

\* Canvas::draw_line after clamping, abs_m <= 1.0: walk x, step y
line_shallow(x1, y1, x2, y2) ==
    LET dx == Abs(x2 - x1)
        dy == Abs(y2 - y1)
        start_x == IF x1 < x2 THEN x1 ELSE x2
        start_y == IF x1 < x2 THEN y1 ELSE y2
        end_x == IF x1 < x2 THEN x2 ELSE x1
        end_y == IF x1 < x2 THEN y2 ELSE y1
        step == IF start_y < end_y THEN 1 ELSE 0 - 1
        a == 2 * dy
        b == a - 2 * dx
    IN  shallow_points(start_x, start_y,
            midpoint_offsets(end_x - start_x, a, b, a - dx, step, 0))

\* Canvas::draw_line after clamping, abs_m > 1.0: walk y, step x
line_steep(x1, y1, x2, y2) ==
    LET dx == Abs(x2 - x1)
        dy == Abs(y2 - y1)
        start_x == IF y1 < y2 THEN x1 ELSE x2
        start_y == IF y1 < y2 THEN y1 ELSE y2
        end_x == IF y1 < y2 THEN x2 ELSE x1
        end_y == IF y1 < y2 THEN y2 ELSE y1
        step == IF start_x < end_x THEN 1 ELSE 0 - 1
        a == 2 * dx
        b == a - 2 * dy
    IN  steep_points(start_x, start_y,
            midpoint_offsets(end_y - start_y, a, b, a - dy, step, 0))

\* Canvas::draw_line: its draw_pixel calls
draw_clamped_line(c) ==
    IF c.panic THEN PanicAfter(<<>>)
    ELSE IF c.x1 = c.x2 THEN Pixels(line_vertical(c.x1, c.y1, c.x2, c.y2))
    ELSE IF abs_m_le_1(Abs(c.y2 - c.y1), Abs(c.x2 - c.x1))
         THEN Pixels(line_shallow(c.x1, c.y1, c.x2, c.y2))
         ELSE Pixels(line_steep(c.x1, c.y1, c.x2, c.y2))

draw_line(w, h, x1, y1, x2, y2) ==
    draw_clamped_line(clamp_line_coords(w, h, x1, y1, x2, y2))

---------------------------------------------------------------------------
(* canvas.rs: circles                                                      *)

\* The midpoint walk shared by draw_circle and draw_circle_solid: the pairs
\* (x_offset, y_offset) of the iterations of  while y_offset <= x_offset.
RECURSIVE circle_offsets(_, _, _)
circle_offsets(e, x_offset, y_offset) ==
    IF y_offset > x_offset THEN <<>>
    ELSE LET e1 == e + 2 * y_offset + 1
         IN  <<<<x_offset, y_offset>>>>
             \o (IF e1 >= 0
                 THEN circle_offsets(e1 - (2 * x_offset - 1), x_offset - 1,
                                     y_offset + 1)
                 ELSE circle_offsets(e1, x_offset, y_offset + 1))

\* the eight calls with the seventh at y + x_offset, where the eighth is
circle_points_lopsided(x, y, o) ==
    << <<x + o[1], y + o[2]>>, <<x + o[1], y - o[2]>>,
       <<x - o[1], y + o[2]>>, <<x - o[1], y - o[2]>>,
       <<x + o[2], y + o[1]>>, <<x + o[2], y - o[1]>>,
       <<x - o[2], y + o[1]>>, <<x - o[2], y + o[1]>> >>

\* the eight draw_pixel calls of one iteration of draw_circle
circle_points(x, y, o) ==
    << <<x + o[1], y + o[2]>>, <<x + o[1], y - o[2]>>,
       <<x - o[1], y + o[2]>>, <<x - o[1], y - o[2]>>,
       <<x + o[2], y + o[1]>>, <<x + o[2], y - o[1]>>,
       <<x - o[2], y - o[1]>>, <<x - o[2], y + o[1]>> >>

RECURSIVE Flatten(_)
Flatten(seqs) == IF seqs = <<>> THEN <<>> ELSE Head(seqs) \o Flatten(Tail(seqs))

\* Canvas::draw_circle: its draw_pixel calls
circle_walk(x, y, offs) ==
    Pixels(Flatten([i \in 1..Len(offs) |-> circle_points(x, y, offs[i])]))

\* the walk entered whatever the radius
draw_circle_unguarded(x, y, r) == circle_walk(x, y, circle_offsets(0 - r, r, 0))

draw_circle(x, y, r) ==
    IF r = 0 THEN Pixels(<<>>)
    ELSE circle_walk(x, y, circle_offsets(0 - r, r, 0))

\* The writes of one iteration of draw_circle_solid into left_buff and
\* right_buff (indexed from 0 by row - (y - r)), in the order of the code.
circle_solid_step(bufs, x, r, o) ==
    LET right1 == [bufs.right EXCEPT ![r + o[2]] = x + o[1]]
        right2 == [right1 EXCEPT ![r - o[2]] = x + o[1]]
        left1 == [bufs.left EXCEPT ![r + o[2]] = x - o[1]]
        left2 == [left1 EXCEPT ![r - o[2]] = x - o[1]]
        right3 == [right2 EXCEPT ![r + o[1]] = x + o[2]]
        right4 == [right3 EXCEPT ![r - o[1]] = x + o[2]]
        left3 == [left2 EXCEPT ![r + o[1]] = x - o[2]]
        left4 == [left3 EXCEPT ![r - o[1]] = x - o[2]]
    IN  [left |-> left4, right |-> right4]

RECURSIVE circle_solid_walk(_, _, _, _)
circle_solid_walk(bufs, x, r, offs) ==
    IF offs = <<>> THEN bufs
    ELSE circle_solid_walk(circle_solid_step(bufs, x, r, Head(offs)), x, r,
                           Tail(offs))

\* for x in x1..x2 { draw_pixel(x, y) }
span(x1, x2, y) == [k \in 1..(x2 - x1) |-> <<x1 + (k - 1), y>>]

\* Canvas::draw_circle_solid: its draw_pixel calls
\* for i in 0..dy { for x in left_buff[i]..right_buff[i] { draw_pixel } }
circle_solid_fill(bufs, y, r, dy) ==
    Pixels(Flatten([k \in 1..dy |->
        span(bufs.left[k - 1], bufs.right[k - 1], (k - 1) + (y - r))]))

\* vec![0isize; dy + 1], for both buffers
circle_solid_buffs(dy) ==
    [left |-> [i \in 0..dy |-> 0], right |-> [i \in 0..dy |-> 0]]

draw_circle_solid(x, y, r) ==
    IF r = 0 THEN Pixels(<<>>)
    ELSE circle_solid_fill(
             circle_solid_walk(circle_solid_buffs(2 * r), x, r,
                               circle_offsets(0 - r, r, 0)),
             y, r, 2 * r)

---------------------------------------------------------------------------
(* canvas.rs: polygons                                                     *)

\* Canvas::draw_polygon: its draw_pixel calls.  The lines are drawn in order
\* (vertices[i] to vertices[i - 1] for i in 1..len, then vertices[0] to the last
\* vertex); a line that panics ends the call.  Indices are the code's, from 0.
RECURSIVE polygon_lines(_, _, _, _, _)

\* line i has been drawn: on to the next one
polygon_line_drawn(w, h, vertices, i, acc, line) ==
    IF line.panic THEN PanicAfter(acc)
    ELSE IF i < Len(vertices)
         THEN polygon_lines(w, h, vertices, i + 1, acc \o line.pixels)
         ELSE Pixels(acc \o line.pixels)

\* self.draw_line(p1.0, p1.1, p2.0, p2.1, color)
polygon_edge(w, h, p1, p2) == draw_line(w, h, p1[1], p1[2], p2[1], p2[2])

polygon_lines(w, h, vertices, i, acc) ==
    polygon_line_drawn(w, h, vertices, i, acc,
        IF i < Len(vertices)
        THEN polygon_edge(w, h, vertices[i + 1], vertices[i])
        ELSE polygon_edge(w, h, vertices[1], vertices[Len(vertices)]))

draw_polygon(w, h, vertices) ==
    IF vertices = <<>> THEN Pixels(<<>>)
    ELSE polygon_lines(w, h, vertices, 1, <<>>)

\* Writes buff[i] = v, one after the other; an index outside the vector
\* panics (a negative index cast to usize is far outside it).
RECURSIVE buffer_writes(_, _)
buffer_writes(buff, writes) ==
    IF writes = <<>> THEN [panic |-> FALSE, buff |-> buff]
    ELSE LET i == Head(writes)[1]
         IN  IF i \notin DOMAIN buff
             THEN [panic |-> TRUE, buff |-> buff]
             ELSE buffer_writes([buff EXCEPT ![i] = Head(writes)[2]],
                                Tail(writes))

\* the steps of a shallow edge that write: all of them for the right chain,
\* those that enter a new scanline (new_line) for the left chain
ShallowKept(start_x, start_y, offs, keep) ==
    [k \in 1..Len(keep) |-> <<start_y + offs[keep[k]], start_x + keep[k]>>]

ShallowWrites(right, start_x, start_y, offs) ==
    ShallowKept(start_x, start_y, offs,
        SelectSeq([i \in 1..Len(offs) |-> i],
                  LAMBDA i : right \/ offs[i] # (IF i = 1 THEN 0 ELSE offs[i - 1])))

\* the writes of a steep edge: one for each step in y
SteepWrites(start_x, start_y, offs) ==
    [i \in 1..Len(offs) |-> <<start_y + i, start_x + offs[i]>>]

\* Canvas::polygon_buffer_line: the writes it makes into buff, in order
polygon_buffer_line_writes(right, x1, y1, x2, y2) ==
    LET dx == Abs(x2 - x1)
        dy == Abs(y2 - y1)
    IN  IF abs_m_le_1(dy, dx)
        THEN LET start_x == IF x1 < x2 THEN x1 ELSE x2
                 start_y == IF x1 < x2 THEN y1 ELSE y2
                 end_x == IF x1 < x2 THEN x2 ELSE x1
                 end_y == IF x1 < x2 THEN y2 ELSE y1
                 step == IF start_y < end_y THEN 1 ELSE 0 - 1
                 a == 2 * dy
                 b == a - 2 * dx
             IN  <<<<start_y, start_x>>>>
                 \o ShallowWrites(right, start_x, start_y,
                        midpoint_offsets(end_x - start_x, a, b, a - dx, step, 0))
        ELSE LET start_x == IF y1 < y2 THEN x1 ELSE x2
                 start_y == IF y1 < y2 THEN y1 ELSE y2
                 end_x == IF y1 < y2 THEN x2 ELSE x1
                 end_y == IF y1 < y2 THEN y2 ELSE y1
                 step == IF start_x < end_x THEN 1 ELSE 0 - 1
                 a == 2 * dx
                 b == a - 2 * dy
             IN  <<<<start_y, start_x>>>>
                 \o SteepWrites(start_x, start_y,
                        midpoint_offsets(end_y - start_y, a, b, a - dy, step, 0))

\* Canvas::polygon_buffer_line
polygon_buffer_line(buff, right, x1, y1, x2, y2) ==
    buffer_writes(buff, polygon_buffer_line_writes(right, x1, y1, x2, y2))

\* the loop of draw_polygon_solid that finds min_vert (indices from 0)
RECURSIVE min_vert_from(_, _, _)
min_vert_from(vertices, i, min_vert) ==
    IF i >= Len(vertices) THEN min_vert
    ELSE min_vert_from(vertices, i + 1,
             IF vertices[i + 1][2] < vertices[min_vert + 1][2] THEN i ELSE min_vert)

\* the loop of draw_polygon_solid that finds max_vert (indices from 0)
RECURSIVE max_vert_from(_, _, _)
max_vert_from(vertices, i, max_vert) ==
    IF i >= Len(vertices) THEN max_vert
    ELSE max_vert_from(vertices, i + 1,
             IF vertices[i + 1][2] > vertices[max_vert + 1][2] THEN i ELSE max_vert)

\* One chain walk of draw_polygon_solid:
\*   loop { edge vert_index -> vert_index + 1 into buff; vert_index += 1;
\*          if vert_index % len == stop { break } }
\* The walk ends within len edges; fuel counts the edges still allowed, so
\* that a walk that did not end would show as "hang".
RECURSIVE chain_walk(_, _, _, _, _, _)

\* the stop test on vert_index itself:  if vert_index == stop { break }
chain_edge_done_unwrapped(res, right, vertices, vert_index, stop, fuel) ==
    IF res.panic THEN [panic |-> TRUE, hang |-> FALSE, buff |-> res.buff]
    ELSE IF vert_index + 1 = stop
         THEN [panic |-> FALSE, hang |-> FALSE, buff |-> res.buff]
    ELSE IF fuel = 0
         THEN [panic |-> FALSE, hang |-> TRUE, buff |-> res.buff]
    ELSE chain_walk(res.buff, right, vertices, vert_index + 1, stop, fuel - 1)

\* the edge from vert_index has been written, with result res
chain_edge_done(res, right, vertices, vert_index, stop, fuel) ==
    IF res.panic THEN [panic |-> TRUE, hang |-> FALSE, buff |-> res.buff]
    ELSE IF (vert_index + 1) % Len(vertices) = stop
         THEN [panic |-> FALSE, hang |-> FALSE, buff |-> res.buff]
    ELSE IF fuel = 0
         THEN [panic |-> FALSE, hang |-> TRUE, buff |-> res.buff]
    ELSE chain_walk(res.buff, right, vertices, vert_index + 1, stop, fuel - 1)

\* self.polygon_buffer_line(buff, right, p1.0, p1.1, p2.0, p2.1)
chain_edge(buff, right, p1, p2) ==
    polygon_buffer_line(buff, right, p1[1], p1[2], p2[1], p2[2])

chain_walk(buff, right, vertices, vert_index, stop, fuel) ==
    chain_edge_done(
        chain_edge(buff, right, vertices[(vert_index % Len(vertices)) + 1],
                   vertices[((vert_index + 1) % Len(vertices)) + 1]),
        right, vertices, vert_index, stop, fuel)

\* for i in 0..dy { for x in (left_buff[i] + start_x)..(right_buff[i] + start_x) }
polygon_solid_fill(left, right, start_x, start_y, dy) ==
    IF right.hang \/ (~right.panic /\ left.hang) THEN Hang
    ELSE IF right.panic \/ left.panic THEN PanicAfter(<<>>)
    ELSE Pixels(Flatten([k \in 1..dy |->
             span(left.buff[k - 1] + start_x, right.buff[k - 1] + start_x,
                  (k - 1) + start_y)]))

\* The two chains over the moved vertices: the right one from start_vert to
\* end_vert, the left one from end_vert to start_vert, each into its own
\* vec![0isize; dy].
polygon_solid_chains(moved, start_vert, end_vert, start_x, start_y, dy) ==
    polygon_solid_fill(
        chain_walk([i \in 0..(dy - 1) |-> 0], FALSE, moved, end_vert,
                   start_vert, 2 * Len(moved)),
        chain_walk([i \in 0..(dy - 1) |-> 0], TRUE, moved, start_vert,
                   end_vert, 2 * Len(moved)),
        start_x, start_y, dy)

\* the scanline arrays one element short: dy = (moved max_vert).1
polygon_solid_moved_short(vertices, clockwise, min_vert, max_vert, start_x, start_y) ==
    polygon_solid_chains(
        [i \in 1..Len(vertices) |->
            <<vertices[i][1] - start_x, vertices[i][2] - start_y>>],
        IF clockwise THEN min_vert ELSE max_vert,
        IF clockwise THEN max_vert ELSE min_vert,
        start_x, start_y, vertices[max_vert + 1][2] - start_y)

\* vertices moved by -(start_x, start_y); dy = (moved max_vert).1 + 1
polygon_solid_moved(vertices, clockwise, min_vert, max_vert, start_x, start_y) ==
    polygon_solid_chains(
        [i \in 1..Len(vertices) |->
            <<vertices[i][1] - start_x, vertices[i][2] - start_y>>],
        IF clockwise THEN min_vert ELSE max_vert,
        IF clockwise THEN max_vert ELSE min_vert,
        start_x, start_y, vertices[max_vert + 1][2] - start_y + 1)

\* (start_x, start_y) = vertices[min_vert]
polygon_solid_from(vertices, clockwise, min_vert, max_vert) ==
    polygon_solid_moved(vertices, clockwise, min_vert, max_vert,
                        vertices[min_vert + 1][1], vertices[min_vert + 1][2])

\* Canvas::draw_polygon_solid: its draw_pixel calls
draw_polygon_solid(vertices, clockwise) ==
    IF vertices = <<>> THEN Pixels(<<>>)
    ELSE polygon_solid_from(vertices, clockwise,
                            min_vert_from(vertices, 0, 0),
                            max_vert_from(vertices, 0, 0))

---------------------------------------------------------------------------
(* canvas.rs: thick lines                                                  *)

\* the bits of a square root: root = floor(sqrt(d * 4^j)) and rem the rest,
\* carried on until root has 26 bits
RECURSIVE F32SqrtBits(_, _, _)
F32SqrtBits(root, rem, j) ==
    IF root >= 33554432 THEN <<root, rem, j>>
    ELSE IF 4 * rem >= 4 * root + 1
         THEN F32SqrtBits(2 * root + 1, 4 * rem - (4 * root + 1), j + 1)
         ELSE F32SqrtBits(2 * root, 4 * rem, j + 1)

\* (d as f32).sqrt(), d a small positive integer
F32SqrtRound(t) == F32Round(1, t[1], 0 - t[3], t[2] # 0)

F32SqrtFrom(d, r0) == F32SqrtRound(F32SqrtBits(r0, d - r0 * r0, 0))

F32Sqrt(d) ==
    F32SqrtFrom(d, CHOOSE r \in 0..d : r * r <= d /\ d < (r + 1) * (r + 1))

\* a / 2.0 (exact)
F32Half(a) == IF a.m = 0 THEN a ELSE [a EXCEPT !.e = a.e - 1]

\* (d_n * width as f32 / 2.0).round() as isize  with d_n = d as f32 / d_len and
\* d_len = (sqr_len as f32).sqrt().  With sqr_len = 0, d_n is NaN, and NaN as
\* isize is 0.
normal_offset(d, sqr_len, line_width) ==
    IF sqr_len = 0 THEN 0
    ELSE F32RoundToInt(F32Half(F32MulInt(
             F32Div(F32FromInt(d), F32Sqrt(sqr_len)), line_width)))

\* the quad around the clamped segment c, offset by (ox, oy) to each side
polyline_quad(c, ox, oy) ==
    draw_polygon_solid(<< <<c.x1 - oy, c.y1 + ox>>, <<c.x1 + oy, c.y1 - ox>>,
                          <<c.x2 + oy, c.y2 - ox>>, <<c.x2 - oy, c.y2 + ox>> >>,
                       TRUE)

\* (ox, oy) from (dx, dy) = (x2 - x1, y2 - y1) of the clamped segment
polyline_offsets(c, dx, dy, line_width) ==
    polyline_quad(c, normal_offset(dx, dx * dx + dy * dy, line_width),
                  normal_offset(dy, dx * dx + dy * dy, line_width))

polyline_clamped(c, line_width) ==
    IF c.panic THEN PanicAfter(<<>>)
    ELSE polyline_offsets(c, c.x2 - c.x1, c.y2 - c.y1, line_width)

\* Canvas::draw_polyline: its draw_pixel calls
draw_polyline(w, h, x1, y1, x2, y2, line_width) ==
    IF line_width = 0 THEN Pixels(<<>>)
    ELSE IF line_width = 1 THEN draw_line(w, h, x1, y1, x2, y2)
    ELSE polyline_clamped(clamp_line_coords(w, h, x1, y1, x2, y2), line_width)

\* Canvas::draw_polyline_capped: its draw_pixel calls
polyline_caps(line, cap1, cap2) ==
    IF line.panic \/ line.hang THEN line
    ELSE Pixels(line.pixels \o cap1.pixels \o cap2.pixels)

draw_polyline_capped(w, h, x1, y1, x2, y2, line_width) ==
    polyline_caps(draw_polyline(w, h, x1, y1, x2, y2, line_width),
                  draw_circle_solid(x1, y1, line_width \div 2),
                  draw_circle_solid(x2, y2, line_width \div 2))

---------------------------------------------------------------------------
(* Arguments the calls are made with.                                      *)

\* pixel values written by set and fill
Orange == RGB(255, 128, 10)
Colors == {Black, Orange}

\* colours drawn with: opaque, fully transparent, translucent
Opaque == RGBA(10, 200, 255, 255)
Clear == RGBA(10, 200, 255, 0)
Glass == RGBA(200, 100, 50, 64)

\* signed coordinates around a canvas of width w and height h
Xs(w) == (0 - Margin)..(w - 1 + Margin)
Ys(h) == (0 - Margin)..(h - 1 + Margin)

\* the positions of the canvas
Inside(w, h) == (0..(w - 1)) \X (0..(h - 1))

\* unsigned positions past the right and the bottom edge
Beyond(w, h) == {<<w - 1 + Margin, 0>>, <<0, h - 1 + Margin>>}

\* signed positions left of and above the canvas
Negative == {<<0 - Margin, 0>>, <<0, 0 - Margin>>}

\* segments of the state machine Spec: a diagonal, a horizontal one from right
\* to left, a vertical one, one that starts and ends outside the canvas
Segments(w, h) ==
    {<<0, 0, w - 1, h - 1>>, <<w - 1, 0, 0, 0>>, <<0, 0, 0, h - 1>>,
     <<0 - Margin, 0 - Margin, w - 1 + Margin, h - 1 + Margin>>}

\* vertex lists of the state machine Spec: none, a corner, the canvas's
\* rectangle in both orders, a triangle that leaves the canvas
VertexLists(w, h) ==
    {<<>>,
     <<<<0, 0>>>>,
     <<<<0, 0>>, <<w - 1, 0>>, <<w - 1, h - 1>>, <<0, h - 1>>>>,
     <<<<0, h - 1>>, <<w - 1, h - 1>>, <<w - 1, 0>>, <<0, 0>>>>,
     <<<<0, 0>>, <<w - 1 + Margin, 0>>, <<0, h - 1 + Margin>>>>}

\* points left of or above the canvas
OutsidePoints(w, h) == {p \in Xs(w) \X Ys(h) : p[1] < 0 \/ p[2] < 0}

\* vertex lists of DrawSpec: none, and every triangle of such points
OutsideLists(w, h) ==
    {<<>>} \cup {<<a, b, c>> : a \in OutsidePoints(w, h),
                              b \in OutsidePoints(w, h),
                              c \in OutsidePoints(w, h)}

\* the points with coordinates 0 .. PolySide - 1
Grid == (0..(PolySide - 1)) \X (0..(PolySide - 1))

\* the rectangle (0,0), (10,0), (10,10), (0,10), drawn on a canvas of 20 x 20
ExampleCanvas == <<20, 20>>
ExampleRectangle == <<<<0, 0>>, <<10, 0>>, <<10, 10>>, <<0, 10>>>>

---------------------------------------------------------------------------
(* The canvas state machine.                                               *)

\* the state after Canvas::new(w, h)
Constructed(w, h) ==
    /\ width = w
    /\ height = h
    /\ buffer = new(w, h)
    /\ calls = 0
    /\ op = "new"
    /\ args = <<w, h>>
    /\ ret = Unit
    /\ before = new(w, h)
    /\ drawn = <<>>

Init == Constructed(CanvasW, CanvasH)

\* A call can be made: the program has not panicked or hung, and the run is
\* not over.
CanCall == ret.tag \in {"unit", "some", "none"} /\ calls < MaxCalls

Get(x, y) ==
    /\ CanCall
    /\ op' = "get"
    /\ args' = [x |-> x, y |-> y]
    /\ ret' = get(buffer, width, x, y)
    /\ before' = buffer
    /\ drawn' = <<>>
    /\ calls' = calls + 1
    /\ UNCHANGED <<width, height, buffer>>

Set(x, y, color) ==
    /\ CanCall
    /\ op' = "set"
    /\ args' = [x |-> x, y |-> y, color |-> color]
    /\ buffer' = set(buffer, width, x, y, color)
    /\ ret' = set_ret(buffer, width, x, y)
    /\ before' = buffer
    /\ drawn' = <<>>
    /\ calls' = calls + 1
    /\ UNCHANGED <<width, height>>

Fill(color) ==
    /\ CanCall
    /\ op' = "fill"
    /\ args' = [color |-> color]
    /\ buffer' = fill(width, height, color)
    /\ ret' = Unit
    /\ before' = buffer
    /\ drawn' = <<>>
    /\ calls' = calls + 1
    /\ UNCHANGED <<width, height>>

DrawPixel(x, y, color) ==
    /\ CanCall
    /\ op' = "draw_pixel"
    /\ args' = [x |-> x, y |-> y, color |-> color]
    /\ buffer' = draw_pixel(buffer, width, height, x, y, color)
    /\ ret' = draw_pixel_ret(buffer, width, height, x, y)
    /\ before' = buffer
    /\ drawn' = <<<<x, y>>>>
    /\ calls' = calls + 1
    /\ UNCHANGED <<width, height>>

\* A drawing operation: its draw_pixel calls res.pixels are composited in
\* order; then it returns, or panics, or it never returns.
Draw(name, a, res, color) ==
    /\ CanCall
    /\ op' = name
    /\ args' = a
    /\ buffer' = draw_pixels(buffer, width, height, res.pixels, color)
    /\ ret' = IF res.hang THEN [tag |-> "hang", val |-> Black]
              ELSE IF res.panic THEN Panic ELSE Unit
    /\ before' = buffer
    /\ drawn' = res.pixels
    /\ calls' = calls + 1
    /\ UNCHANGED <<width, height>>

Segment(x1, y1, x2, y2, color) ==
    [x1 |-> x1, y1 |-> y1, x2 |-> x2, y2 |-> y2, color |-> color]

DrawLine(x1, y1, x2, y2, color) ==
    Draw("draw_line", Segment(x1, y1, x2, y2, color),
         draw_line(width, height, x1, y1, x2, y2), color)

DrawPolyline(x1, y1, x2, y2, line_width, color) ==
    Draw("draw_polyline",
         [x1 |-> x1, y1 |-> y1, x2 |-> x2, y2 |-> y2, width |-> line_width,
          color |-> color],
         draw_polyline(width, height, x1, y1, x2, y2, line_width), color)

DrawPolylineCapped(x1, y1, x2, y2, line_width, color) ==
    Draw("draw_polyline_capped",
         [x1 |-> x1, y1 |-> y1, x2 |-> x2, y2 |-> y2, width |-> line_width,
          color |-> color],
         draw_polyline_capped(width, height, x1, y1, x2, y2, line_width), color)

DrawCircle(x, y, r, color) ==
    Draw("draw_circle", [x |-> x, y |-> y, r |-> r, color |-> color],
         draw_circle(x, y, r), color)

DrawCircleSolid(x, y, r, color) ==
    Draw("draw_circle_solid", [x |-> x, y |-> y, r |-> r, color |-> color],
         draw_circle_solid(x, y, r), color)

DrawPolygon(vertices, color) ==
    Draw("draw_polygon", [vertices |-> vertices, color |-> color],
         draw_polygon(width, height, vertices), color)

DrawPolygonSolid(vertices, clockwise, color) ==
    Draw("draw_polygon_solid",
         [vertices |-> vertices, clockwise |-> clockwise, color |-> color],
         draw_polygon_solid(vertices, clockwise), color)

\* buffer_u32 borrows the canvas: the packed buffer is what is returned
BufferU32 ==
    /\ CanCall
    /\ op' = "buffer_u32"
    /\ args' = <<>>
    /\ ret' = Some(buffer_u32(buffer))
    /\ before' = buffer
    /\ drawn' = <<>>
    /\ calls' = calls + 1
    /\ UNCHANGED <<width, height, buffer>>

\* what clamp_line_coords returns: (x1, y1, x2, y2), or it panics
clamp_ret(c) ==
    IF c.panic THEN [tag |-> "panic", val |-> <<>>]
    ELSE [tag |-> "some", val |-> <<c.x1, c.y1, c.x2, c.y2>>]

\* clamp_line_coords on its own: the clamped segment is what is returned
ClampLineCoords(x1, y1, x2, y2) ==
    /\ CanCall
    /\ op' = "clamp_line_coords"
    /\ args' = [x1 |-> x1, y1 |-> y1, x2 |-> x2, y2 |-> y2]
    /\ ret' = clamp_ret(clamp_line_coords(width, height, x1, y1, x2, y2))
    /\ before' = buffer
    /\ drawn' = <<>>
    /\ calls' = calls + 1
    /\ UNCHANGED <<width, height, buffer>>

\* Sequences of up to MaxCalls calls on a canvas of CanvasW x CanvasH.
Next ==
    \/ \E p \in Inside(width, height) \cup Beyond(width, height) :
          Get(p[1], p[2])
    \/ \E p \in Inside(width, height) \cup Beyond(width, height), c \in Colors :
          Set(p[1], p[2], c)
    \/ \E c \in Colors : Fill(c)
    \/ BufferU32
    \/ \E p \in Inside(width, height) \cup Beyond(width, height) \cup Negative,
          c \in {Opaque, Clear, Glass} :
          DrawPixel(p[1], p[2], c)
    \/ \E s \in Segments(width, height) :
          DrawLine(s[1], s[2], s[3], s[4], Opaque)
    \/ \E lw \in {0, 1, 2} :
          DrawPolyline(0, 0, width - 1, height - 1, lw, Opaque)
    \/ \E lw \in {0, 2, 3} :
          DrawPolylineCapped(0, 0, width - 1, 0, lw, Glass)
    \/ \E p \in {<<0, 0>>, <<1, 1>>}, r \in {0, 1} :
          DrawCircle(p[1], p[2], r, Opaque)
    \/ \E p \in {<<0, 0>>, <<1, 1>>}, r \in {0, 1} :
          DrawCircleSolid(p[1], p[2], r, Glass)
    \/ \E v \in VertexLists(width, height) : DrawPolygon(v, Opaque)
    \/ \E v \in VertexLists(width, height), cw \in BOOLEAN :
          DrawPolygonSolid(v, cw, Opaque)

Spec == Init /\ [][Next]_vars

\* the canvas has just been constructed: the call made now is its only one
FirstCall == calls = 0

\* One drawing call on a canvas of CanvasW x CanvasH, with every segment
\* around the canvas, thin and thick, every circle up to radius MaxR around
\* it, and no vertices or a triangle left of or above it.
DrawNext ==
    /\ FirstCall
    /\ \/ \E x1 \in Xs(width), y1 \in Ys(height),
             x2 \in Xs(width), y2 \in Ys(height), c \in {Opaque, Glass} :
             DrawLine(x1, y1, x2, y2, c)
       \/ \E x1 \in Xs(width), y1 \in Ys(height),
             x2 \in Xs(width), y2 \in Ys(height) :
             ClampLineCoords(x1, y1, x2, y2)
       \/ \E x1 \in Xs(width), y1 \in Ys(height),
             x2 \in Xs(width), y2 \in Ys(height), lw \in 0..MaxLineWidth :
             DrawPolyline(x1, y1, x2, y2, lw, Opaque)
       \/ \E x1 \in Xs(width), y1 \in Ys(height),
             x2 \in Xs(width), y2 \in Ys(height), lw \in 0..MaxLineWidth :
             DrawPolylineCapped(x1, y1, x2, y2, lw, Opaque)
       \/ \E x \in Xs(width), y \in Ys(height), r \in 0..MaxR :
             DrawCircle(x, y, r, Opaque)
       \/ \E x \in Xs(width), y \in Ys(height), r \in 0..MaxR :
             DrawCircleSolid(x, y, r, Opaque)
       \/ \E v \in OutsideLists(width, height) : DrawPolygon(v, Opaque)
       \/ \E v \in OutsideLists(width, height), cw \in BOOLEAN :
             DrawPolygonSolid(v, cw, Opaque)

DrawSpec == Init /\ [][DrawNext]_vars

\* One circle on a canvas of CircleSide x CircleSide, every centre around
\* the canvas and every radius up to MaxR, opaque and translucent.
CircleInit == Constructed(CircleSide, CircleSide)

CircleNext ==
    /\ FirstCall
    /\ \/ \E x \in Xs(width), y \in Ys(height), r \in 0..MaxR,
             c \in {Opaque, Glass} :
             DrawCircle(x, y, r, c)
       \/ \E x \in Xs(width), y \in Ys(height), r \in 0..MaxR,
             c \in {Opaque, Glass} :
             DrawCircleSolid(x, y, r, c)

CircleSpec == CircleInit /\ [][CircleNext]_vars

\* One solid polygon: on a canvas of PolySide x PolySide every list of one
\* to four vertices over its positions, in both declared orders; on the
\* canvas of the example its rectangle.
PolygonInit ==
    \/ Constructed(PolySide, PolySide)
    \/ Constructed(ExampleCanvas[1], ExampleCanvas[2])

PolygonNext ==
    /\ FirstCall
    /\ \/ /\ width = PolySide
          /\ \/ \E a \in Grid, cw \in BOOLEAN :
                   DrawPolygonSolid(<<a>>, cw, Opaque)
             \/ \E a \in Grid, b \in Grid, cw \in BOOLEAN :
                   DrawPolygonSolid(<<a, b>>, cw, Opaque)
             \/ \E a \in Grid, b \in Grid, c \in Grid, cw \in BOOLEAN :
                   DrawPolygonSolid(<<a, b, c>>, cw, Opaque)
             \/ \E a \in Grid, b \in Grid, c \in Grid, d \in Grid,
                   cw \in BOOLEAN :
                   DrawPolygonSolid(<<a, b, c, d>>, cw, Opaque)
       \/ /\ width = ExampleCanvas[1]
          /\ \E cw \in BOOLEAN : DrawPolygonSolid(ExampleRectangle, cw, Opaque)

PolygonSpec == PolygonInit /\ [][PolygonNext]_vars

\* One line on a canvas of LineSide x LineSide, between every two of its
\* positions, opaque and translucent.
LineInit == Constructed(LineSide, LineSide)

LineNext ==
    /\ FirstCall
    /\ \E p \in Inside(width, height), q \in Inside(width, height),
          c \in {Opaque, Glass} :
          DrawLine(p[1], p[2], q[1], q[2], c)

LineSpec == LineInit /\ [][LineNext]_vars

---------------------------------------------------------------------------
(* Vocabulary of the properties.                                           *)

\* the elements of a sequence
Range(seq) == {seq[i] : i \in 1..Len(seq)}

\* the pixel at (x, y) of a buffer of width w
PixelAt(buf, w, x, y) == buf[y * w + x + 1]

\* the coordinates of the last call's draw_pixel calls that are positions of
\* the canvas
Composited == {p \in Range(drawn) : pixel_inside(width, height, p[1], p[2])}

\* every pixel but (x, y) is as it was before the last call
OthersUnchanged(x, y) ==
    \A p \in Inside(width, height) \ {<<x, y>>} :
        PixelAt(buffer, width, p[1], p[2]) = PixelAt(before, width, p[1], p[2])

\* Points that all lie left of the canvas, or all right of it, or all above
\* it, or all below it: what they span has no point on the canvas.
AllOutside(points) ==
    \/ \A p \in points : p[1] < 0
    \/ \A p \in points : p[1] >= width
    \/ \A p \in points : p[2] < 0
    \/ \A p \in points : p[2] >= height

\* the last call draws a line, a circle or a polygon
DrawsShape ==
    op \in {"draw_line", "draw_circle", "draw_circle_solid", "draw_polygon",
            "draw_polygon_solid"}

\* corners of the shape of the last call: the endpoints of a line, the
\* corners of the square around a circle, the vertices of a polygon
Extent ==
    IF op = "draw_line"
    THEN {<<args.x1, args.y1>>, <<args.x2, args.y2>>}
    ELSE IF op \in {"draw_circle", "draw_circle_solid"}
    THEN {<<args.x - args.r, args.y - args.r>>,
          <<args.x + args.r, args.y + args.r>>}
    ELSE Range(args.vertices)

\* the rectangle with corners (x0, y0) and (x1, y1), clockwise from (x0, y0)
Rectangle(x0, y0, x1, y1) ==
    <<<<x0, y0>>, <<x1, y0>>, <<x1, y1>>, <<x0, y1>>>>

\* the half-open block [x0, x1) x [y0, y1)
Block(x0, y0, x1, y1) == (x0..(x1 - 1)) \X (y0..(y1 - 1))

\* v is an axis-aligned rectangle with x0 < x1 and y0 < y1, on the canvas
IsRectangle(v) ==
    /\ Len(v) = 4
    /\ v = Rectangle(v[1][1], v[1][2], v[3][1], v[3][2])
    /\ v[1][1] < v[3][1]
    /\ v[1][2] < v[3][2]
    /\ \A i \in 1..4 : pixel_inside(width, height, v[i][1], v[i][2])

\* twice the signed area of the triangle o, a, b
Cross(o, a, b) ==
    (a[1] - o[1]) * (b[2] - o[2]) - (a[2] - o[2]) * (b[1] - o[1])

Sgn(n) == IF n > 0 THEN 1 ELSE IF n < 0 THEN 0 - 1 ELSE 0

Least(m, n) == IF m < n THEN m ELSE n
Most(m, n) == IF m < n THEN n ELSE m

\* p lies on the segment from a to b
OnSegment(a, b, p) ==
    /\ Cross(a, b, p) = 0
    /\ Least(a[1], b[1]) <= p[1] /\ p[1] <= Most(a[1], b[1])
    /\ Least(a[2], b[2]) <= p[2] /\ p[2] <= Most(a[2], b[2])

\* the segments a-b and c-d have a point in common
SegmentsMeet(a, b, c, d) ==
    \/ /\ Sgn(Cross(a, b, c)) * Sgn(Cross(a, b, d)) < 0
       /\ Sgn(Cross(c, d, a)) * Sgn(Cross(c, d, b)) < 0
    \/ OnSegment(a, b, c) \/ OnSegment(a, b, d)
    \/ OnSegment(c, d, a) \/ OnSegment(c, d, b)

\* the vertex after vertex i of the closed polygon v
After(v, i) == v[(i % Len(v)) + 1]

\* v is a simple polygon: at least three vertices, all different; edges that
\* follow one another share only their common vertex, all others share no point
Simple(v) ==
    /\ Len(v) >= 3
    /\ \A i, j \in 1..Len(v) : i # j => v[i] # v[j]
    /\ \A i, j \in 1..Len(v) :
          i < j =>
             IF j = i + 1
             THEN /\ ~OnSegment(v[i], v[j], After(v, j))
                  /\ ~OnSegment(v[j], After(v, j), v[i])
             ELSE IF i = 1 /\ j = Len(v)
             THEN /\ ~OnSegment(v[i], After(v, i), v[j])
                  /\ ~OnSegment(v[j], v[i], After(v, i))
             ELSE ~SegmentsMeet(v[i], After(v, i), v[j], After(v, j))

\* Twice the signed area of v by the shoelace sum.  With y growing downwards
\* it is positive for the order the code calls clockwise: it is for the
\* clockwise triangle (200,100), (500,700), (300,800) of the documentation.
RECURSIVE Shoelace(_, _)
Shoelace(v, i) ==
    IF i > Len(v) THEN 0
    ELSE v[i][1] * After(v, i)[2] - After(v, i)[1] * v[i][2] + Shoelace(v, i + 1)

\* the order of v is the declared one
OrderMatches(v, clockwise) ==
    IF clockwise THEN Shoelace(v, 1) > 0 ELSE Shoelace(v, 1) < 0

\* p lies on an edge of v
OnBoundary(v, p) == \E i \in 1..Len(v) : OnSegment(v[i], After(v, i), p)

\* the edge from a to b crosses the horizontal ray from p to the right
CrossesRay(a, b, p) ==
    /\ (a[2] > p[2]) # (b[2] > p[2])
    /\ IF b[2] > a[2]
       THEN (p[2] - a[2]) * (b[1] - a[1]) > (p[1] - a[1]) * (b[2] - a[2])
       ELSE (p[2] - a[2]) * (b[1] - a[1]) < (p[1] - a[1]) * (b[2] - a[2])

\* p lies inside v and not on its boundary: the ray from p crosses an odd
\* number of edges
StrictlyInside(v, p) ==
    /\ ~OnBoundary(v, p)
    /\ Cardinality({i \in 1..Len(v) : CrossesRay(v[i], After(v, i), p)}) % 2 = 1

\* a concave quadrilateral: the tips (0,0) and (2,0) with the notch (1,1)
\* between them, above the tip (1,2)
Dart == <<<<0, 0>>, <<1, 1>>, <<2, 0>>, <<1, 2>>>>

\* S is unchanged by the reflections across x = cx and y = cy, and lies
\* within r of (cx, cy) in both coordinates
Symmetric(S, cx, cy, r) ==
    /\ \A p \in S : p[1] - cx \in (0 - r)..r /\ p[2] - cy \in (0 - r)..r
    /\ \A dx \in (0 - r)..r, dy \in (0 - r)..r :
          <<cx + dx, cy + dy>> \in S
          <=> (<<cx - dx, cy + dy>> \in S /\ <<cx + dx, cy - dy>> \in S)

---------------------------------------------------------------------------
(* Properties of the pixel operations, under Spec.                         *)

\* C1: for every (x, y) out of bounds (x >= width or y >= height for get and
\* set, also negative x or y for draw_pixel), get, set and draw_pixel return
\* None and leave every pixel of the buffer unchanged.
C1_OutOfBoundsAbsorbed ==
    (\/ op \in {"get", "set"} /\ (args.x >= width \/ args.y >= height)
     \/ op = "draw_pixel" /\ ~pixel_inside(width, height, args.x, args.y))
    => ret = None /\ buffer = before

\* set with x >= width has returned Some(()) and written a pixel of the next row
C1_SetPastRightEdge ==
    /\ op = "set"
    /\ args.x >= width /\ args.y < height
    /\ ret.tag = "some"
    /\ buffer # before
    /\ PixelAt(buffer, width, args.x - width, args.y + 1) = args.color

\* C7: after Canvas::new(width, height) every pixel is black, and after any
\* sequence of set, fill, draw_pixel, draw_line, draw_polyline,
\* draw_polyline_capped, draw_circle, draw_circle_solid, draw_polygon and
\* draw_polygon_solid calls the buffer length is width * height and width and
\* height are the ones the canvas was constructed with.
C7_BufferKeepsItsSize ==
    /\ Len(buffer) = width * height
    /\ width = CanvasW
    /\ height = CanvasH
    /\ op = "new" => \A i \in 1..Len(buffer) : buffer[i] = RGB(0, 0, 0)

\* the last of MaxCalls calls has drawn over a buffer an earlier call changed
C7_CallsChangedPixels ==
    /\ calls = MaxCalls
    /\ op \in {"fill", "draw_polygon_solid", "draw_polyline_capped"}
    /\ before # new(width, height)
    /\ buffer # before

\* C8: for every in-bounds (x, y) and every existing pixel value, draw_pixel
\* with a colour of alpha 255 sets the pixel to exactly the colour's RGB part,
\* and draw_pixel with a colour of alpha 0 leaves the pixel exactly as it was;
\* in both cases all other pixels are unchanged.
C8_OpaqueReplacesClearKeeps ==
    (/\ op = "draw_pixel"
     /\ pixel_inside(width, height, args.x, args.y)
     /\ args.color.a \in {0, 255})
    => /\ ret.tag = "some"
       /\ PixelAt(buffer, width, args.x, args.y) =
             (IF args.color.a = 255
              THEN RGB(args.color.r, args.color.g, args.color.b)
              ELSE PixelAt(before, width, args.x, args.y))
       /\ OthersUnchanged(args.x, args.y)

\* an opaque colour has been drawn over a pixel that an earlier call made orange
C8_OpaqueOverOrange ==
    /\ op = "draw_pixel"
    /\ pixel_inside(width, height, args.x, args.y)
    /\ args.color = Opaque
    /\ PixelAt(before, width, args.x, args.y) = Orange
    /\ PixelAt(buffer, width, args.x, args.y) = RGB(10, 200, 255)

\* C10: for every in-bounds (x, y) and every RGB value c, set(x, y, c)
\* succeeds and a following get(x, y) returns exactly c.
C10_SetThenGet ==
    (op = "set" /\ args.x < width /\ args.y < height)
    => /\ ret.tag = "some"
       /\ get(buffer, width, args.x, args.y) = Some(args.color)

\* set has written black over a pixel that an earlier call made orange
C10_SetOverOrange ==
    /\ op = "set"
    /\ args.x < width /\ args.y < height
    /\ args.color = Black
    /\ PixelAt(before, width, args.x, args.y) = Orange
    /\ get(buffer, width, args.x, args.y) = Some(Black)

---------------------------------------------------------------------------
(* Properties of lines and of shapes off the canvas, under DrawSpec.       *)

\* C2: drawing a line (draw_line), a circle (draw_circle, draw_circle_solid)
\* or a polygon (draw_polygon, draw_polygon_solid) that lies entirely outside
\* the canvas rectangle completes without panicking and leaves the buffer
\* unchanged.
C2_OffCanvasAbsorbed ==
    (DrawsShape /\ AllOutside(Extent)) => ret = Unit /\ buffer = before

\* the horizontal line from (0, -1) to (1, -1), above the canvas, has panicked
C2_LineAboveCanvasPanics ==
    /\ op = "draw_line"
    /\ args = Segment(0, 0 - 1, 1, 0 - 1, Opaque)
    /\ AllOutside(Extent)
    /\ ret = Panic

\* C6: for every segment with one endpoint inside the canvas and the other
\* outside it, clamp_line_coords returns a segment whose two endpoints both
\* satisfy 0 <= x <= width and 0 <= y <= height, and returns the inside
\* endpoint unchanged.
C6_ClampedOntoCanvas ==
    (/\ op = "clamp_line_coords"
     /\ pixel_inside(width, height, args.x1, args.y1)
           # pixel_inside(width, height, args.x2, args.y2))
    => /\ ret.tag = "some"
       /\ ret.val[1] \in 0..width /\ ret.val[2] \in 0..height
       /\ ret.val[3] \in 0..width /\ ret.val[4] \in 0..height
       /\ pixel_inside(width, height, args.x1, args.y1)
             => ret.val[1] = args.x1 /\ ret.val[2] = args.y1
       /\ pixel_inside(width, height, args.x2, args.y2)
             => ret.val[3] = args.x2 /\ ret.val[4] = args.y2

\* the vertical segment from (1, 1) down to (1, height) has been clamped to
\* end at y = width
C6_VerticalClampedToWidth ==
    /\ op = "clamp_line_coords"
    /\ args = [x1 |-> 1, y1 |-> 1, x2 |-> 1, y2 |-> height]
    /\ ret.tag = "some"
    /\ ret.val = <<1, 1, 1, width>>
    /\ width > height

---------------------------------------------------------------------------
(* Properties of circles, under CircleSpec.                                *)

\* C4: for every centre (cx, cy) and radius r >= 1 with the disk inside the
\* canvas, the pixels composited by draw_circle_solid contain the four
\* axis-aligned points (cx+r, cy), (cx-r, cy), (cx, cy+r), (cx, cy-r), and no
\* pixel whose distance from the centre exceeds r + 1.
C4_SolidCircleExtent ==
    (/\ op = "draw_circle_solid"
     /\ args.r >= 1
     /\ pixel_inside(width, height, args.x - args.r, args.y - args.r)
     /\ pixel_inside(width, height, args.x + args.r, args.y + args.r))
    => /\ ret = Unit
       /\ {<<args.x + args.r, args.y>>, <<args.x - args.r, args.y>>,
           <<args.x, args.y + args.r>>, <<args.x, args.y - args.r>>}
             \subseteq Composited
       /\ \A p \in Composited :
             (p[1] - args.x) * (p[1] - args.x) + (p[2] - args.y) * (p[2] - args.y)
                <= (args.r + 1) * (args.r + 1)

\* the solid circle of radius 1 around (2, 2) is the two pixels (1, 2), (2, 2)
C4_UnitDiskIsTwoPixels ==
    /\ op = "draw_circle_solid"
    /\ args = [x |-> 2, y |-> 2, r |-> 1, color |-> Opaque]
    /\ ret = Unit
    /\ Composited = {<<1, 2>>, <<2, 2>>}

---------------------------------------------------------------------------
(* Properties of solid polygons, under PolygonSpec.                        *)

\* C3: for every axis-aligned rectangle given as vertices (x0,y0), (x1,y0),
\* (x1,y1), (x0,y1) with x0 < x1 and y0 < y1 inside the canvas and
\* clockwise = true, draw_polygon_solid composites exactly the pixels of the
\* half-open block [x0,x1) x [y0,y1) and no others; in particular
\* (0,0), (10,0), (10,10), (0,10) on a 20 x 20 canvas fills exactly
\* [0,10) x [0,10).
C3_RectangleBlock ==
    (/\ op = "draw_polygon_solid"
     /\ args.clockwise
     /\ IsRectangle(args.vertices))
    => /\ ret = Unit
       /\ Composited = Block(args.vertices[1][1], args.vertices[1][2],
                             args.vertices[3][1], args.vertices[3][2])
       /\ Range(drawn) = Composited

\* the rectangle of the example on its canvas of 20 x 20: the pixels of row
\* 10 are composited with those of the block, 110 pixels in all
C3_ExampleFillsRowTen ==
    /\ width = 20 /\ height = 20
    /\ op = "draw_polygon_solid"
    /\ args.clockwise
    /\ args.vertices = ExampleRectangle
    /\ Composited = (0..9) \X (0..10)

\* C5: for every simple polygon, convex or concave, whose vertex order
\* matches the declared clockwise flag, draw_polygon_solid fills the polygon
\* correctly: every composited pixel lies inside or on the polygon boundary
\* (no pixel of a concavity outside the polygon is filled) and every pixel
\* strictly inside the polygon is composited.
C5_SimplePolygonFilled ==
    (/\ op = "draw_polygon_solid"
     /\ Simple(args.vertices)
     /\ OrderMatches(args.vertices, args.clockwise))
    => /\ ret = Unit
       /\ \A p \in Range(drawn) :
             OnBoundary(args.vertices, p) \/ StrictlyInside(args.vertices, p)
       /\ \A p \in Inside(width, height) :
             StrictlyInside(args.vertices, p) => p \in Composited

\* the dart, a simple polygon given clockwise: the pixel (1, 0) of its notch,
\* outside the polygon, is composited
C5_DartNotchFilled ==
    /\ op = "draw_polygon_solid"
    /\ args.vertices = Dart
    /\ args.clockwise
    /\ Simple(Dart) /\ OrderMatches(Dart, TRUE)
    /\ ~OnBoundary(Dart, <<1, 0>>) /\ ~StrictlyInside(Dart, <<1, 0>>)
    /\ <<1, 0>> \in Composited


---------------------------------------------------------------------------
(* Properties of the packed buffer, under Spec.                            *)

\* the channel of a packed value that starts at bit k: (v >> k) & 0xFF
Channel(v, k) == (v \div 2^k) % 256

\* a packed value decoded channel-wise
Decoded(v) == RGB(Channel(v, 16), Channel(v, 8), Channel(v, 0))

\* C11: buffer_u32 returns one 32-bit value per pixel, in the same row-major
\* order as the buffer, each equal to 0x00RRGGBB (r << 16 | g << 8 | b, top
\* byte zero), so that decoding each value channel-wise reproduces the RGB
\* buffer exactly.
C11_PackedRoundTrip ==
    op = "buffer_u32"
    => /\ ret.tag = "some"
       /\ Len(ret.val) = width * height
       /\ \A p \in Inside(width, height) :
             LET v == ret.val[p[2] * width + p[1] + 1]
                 c == PixelAt(buffer, width, p[1], p[2])
             IN  /\ v = c.r * 65536 + c.g * 256 + c.b
                 /\ v \div 2^24 = 0
                 /\ Decoded(v) = c
       /\ buffer = before

\* a buffer with an orange pixel in its second row, the others black, has
\* been packed: the value of that pixel is 0xFF800A
C11_PackedOrangePixel ==
    /\ op = "buffer_u32"
    /\ PixelAt(buffer, width, 1, 1) = Orange
    /\ ret.val[width + 2] = 16744458
    /\ PixelAt(buffer, width, 0, 0) = Black


---------------------------------------------------------------------------
(* Properties of degenerate shapes and of lines, under DrawSpec.           *)

\* the last call was given a radius of 0, a line width of 0, or no vertices
Degenerate ==
    \/ op \in {"draw_circle", "draw_circle_solid"} /\ args.r = 0
    \/ op \in {"draw_polyline", "draw_polyline_capped"} /\ args.width = 0
    \/ op \in {"draw_polygon", "draw_polygon_solid"} /\ args.vertices = <<>>

\* C12: degenerate inputs are no-ops: draw_circle and draw_circle_solid with
\* radius 0, draw_polyline and draw_polyline_capped with width 0, and
\* draw_polygon and draw_polygon_solid with an empty vertex list all return
\* normally and leave every pixel of the buffer unchanged, for any other
\* arguments.
C12_DegenerateNoOp ==
    Degenerate => ret = Unit /\ drawn = <<>> /\ buffer = before

\* a capped line of width 0 from the first pixel to a point outside the
\* canvas has returned
C12_CappedWidthZero ==
    /\ op = "draw_polyline_capped"
    /\ args.width = 0
    /\ args.x1 = 0 /\ args.y1 = 0
    /\ ~pixel_inside(width, height, args.x2, args.y2)
    /\ ret = Unit


---------------------------------------------------------------------------
(* Properties of the scanline arrays of solid polygons, under PolygonSpec. *)

\* C13: draw_polygon_solid never crashes: for any non-empty vertex list and
\* either value of the clockwise flag, including a flag that does not match
\* the actual vertex order, every index used on the left/right scanline
\* arrays lies within [0, maxY] (arrays of size maxY + 1) and the call
\* returns normally.  (The arrays of the model have the indices 0 .. maxY,
\* and a write at any other index is a panic: the call returns normally
\* exactly if every index used lies within [0, maxY].)
C13_SolidPolygonReturns ==
    (op = "draw_polygon_solid" /\ args.vertices # <<>>)
    => /\ ret = Unit
       /\ \A p \in Range(drawn) :
             \E i, j \in 1..Len(args.vertices) :
                 args.vertices[i][2] <= p[2] /\ p[2] <= args.vertices[j][2]

\* a triangle whose order is clockwise, declared counter-clockwise, drawn
C13_WrongFlagReturns ==
    /\ op = "draw_polygon_solid"
    /\ args.vertices = <<<<0, 0>>, <<2, 1>>, <<0, 2>>>>
    /\ OrderMatches(args.vertices, TRUE)
    /\ ~args.clockwise
    /\ ret = Unit


---------------------------------------------------------------------------
(* Properties of lines on the canvas, under LineSpec.                      *)

\* the last call drew a line between two positions of the canvas
LineInside ==
    /\ op = "draw_line"
    /\ pixel_inside(width, height, args.x1, args.y1)
    /\ pixel_inside(width, height, args.x2, args.y2)

\* the draw_pixel calls of the last call all have different coordinates
EachOnce == Cardinality(Range(drawn)) = Len(drawn)

\* C14: for a vertical segment (x1 == x2) with both endpoints inside the
\* canvas, draw_line composites exactly the pixels (x1, y) for
\* min(y1, y2) <= y < max(y1, y2), each once: the topmost endpoint is
\* included and the bottom endpoint is excluded, so a zero-length line draws
\* no pixel; the vertical branch returns without entering the general branch.
C14_VerticalHalfOpen ==
    (LineInside /\ args.x1 = args.x2)
    => /\ ret = Unit
       /\ EachOnce
       /\ Range(drawn) =
             {<<args.x1, y>> : y \in Least(args.y1, args.y2)
                                      ..(Most(args.y1, args.y2) - 1)}

\* the vertical line from (1, 3) up to (1, 0) has composited (1, 0), (1, 1)
\* and (1, 2), and not (1, 3)
C14_UpwardLineDrawsTop ==
    /\ op = "draw_line"
    /\ args.x1 = 1 /\ args.y1 = 3 /\ args.x2 = 1 /\ args.y2 = 0
    /\ drawn = <<<<1, 0>>, <<1, 1>>, <<1, 2>>>>
    /\ PixelAt(buffer, width, 1, 0) # PixelAt(before, width, 1, 0)
    /\ PixelAt(buffer, width, 1, 3) = PixelAt(before, width, 1, 3)

\* the pixels drawn are one for each coordinate lo .. hi along the axis
\* major, each once, and neighbours differ by at most 1 along the axis minor
OnePerStep(major, minor, lo, hi) ==
    /\ Len(drawn) = hi - lo + 1
    /\ {drawn[i][major] : i \in 1..Len(drawn)} = lo..hi
    /\ \A i \in 1..(Len(drawn) - 1) :
          Abs(drawn[i + 1][minor] - drawn[i][minor]) <= 1

\* C17: for every non-vertical segment with both endpoints inside the
\* canvas, draw_line composites exactly max(|dx|, |dy|) + 1 pixels, one for
\* each coordinate along the major axis and each exactly once, the first
\* being one endpoint and the last being the other endpoint, with the
\* minor-axis coordinate changing by at most 1 between consecutive pixels.
C17_OnePixelPerMajorStep ==
    (LineInside /\ args.x1 # args.x2)
    => /\ ret = Unit
       /\ Len(drawn) = Most(Abs(args.x2 - args.x1), Abs(args.y2 - args.y1)) + 1
       /\ EachOnce
       /\ {drawn[1], drawn[Len(drawn)]} =
             {<<args.x1, args.y1>>, <<args.x2, args.y2>>}
       /\ IF Abs(args.y2 - args.y1) <= Abs(args.x2 - args.x1)
          THEN OnePerStep(1, 2, Least(args.x1, args.x2), Most(args.x1, args.x2))
          ELSE OnePerStep(2, 1, Least(args.y1, args.y2), Most(args.y1, args.y2))

\* the steep line from (2, 3) up to (1, 0) has been drawn from its upper end
C17_SteepLineDrawn ==
    /\ op = "draw_line"
    /\ args.x1 = 2 /\ args.y1 = 3 /\ args.x2 = 1 /\ args.y2 = 0
    /\ Len(drawn) = 4
    /\ drawn[1] = <<1, 0>>
    /\ drawn[4] = <<2, 3>>


\* the y an endpoint of a vertical segment is to be clamped to: its own if
\* the endpoint is inside, 0 if its y is negative, height otherwise
VerticalY(x, y) ==
    IF pixel_inside(width, height, x, y) THEN y
    ELSE IF y < 0 THEN 0 ELSE height

\* C15: when a vertical segment has an endpoint outside the canvas, clamping
\* replaces each out-of-range endpoint by the point at the same x with y = 0
\* (if its y is negative) or y = height (otherwise), for every canvas width
\* and height.
C15_VerticalClampedToHeight ==
    (/\ op = "clamp_line_coords"
     /\ args.x1 = args.x2
     /\ \/ ~pixel_inside(width, height, args.x1, args.y1)
        \/ ~pixel_inside(width, height, args.x2, args.y2))
    => /\ ret.tag = "some"
       /\ ret.val = <<args.x1, VerticalY(args.x1, args.y1),
                      args.x2, VerticalY(args.x2, args.y2)>>

\* the vertical segment from above the canvas to below it, both endpoints
\* outside, has been clamped to run from y = 0 to y = width
C15_ThroughClampedToWidth ==
    /\ op = "clamp_line_coords"
    /\ args = [x1 |-> 2, y1 |-> 0 - 1, x2 |-> 2, y2 |-> height]
    /\ ret.tag = "some"
    /\ ret.val = <<2, 0, 2, width>>
    /\ width # height


\* the vector from the first to the second endpoint of the segment s
Vector(s) == <<s[3] - s[1], s[4] - s[2]>>

\* u is a non-negative multiple of v: parallel to it and not opposed
NonNegativeMultiple(u, v) ==
    /\ u[1] * v[2] = u[2] * v[1]
    /\ u[1] * v[1] + u[2] * v[2] >= 0

\* C16: for every non-vertical segment with at least one endpoint outside the
\* canvas rectangle, clamping returns a segment that lies within or on the
\* canvas rectangle and preserves direction: each out-of-bounds endpoint is
\* replaced by the closer of the two boundary intersection points, and the
\* clamped vector from first to second endpoint is a non-negative multiple
\* of the original vector.
C16_ClampPreservesDirection ==
    (/\ op = "clamp_line_coords"
     /\ args.x1 # args.x2
     /\ \/ ~pixel_inside(width, height, args.x1, args.y1)
        \/ ~pixel_inside(width, height, args.x2, args.y2))
    => /\ ret.tag = "some"
       /\ ret.val[1] \in 0..width /\ ret.val[2] \in 0..height
       /\ ret.val[3] \in 0..width /\ ret.val[4] \in 0..height
       /\ NonNegativeMultiple(Vector(ret.val),
                              Vector(<<args.x1, args.y1, args.x2, args.y2>>))

\* the segment from (2, 2), below the canvas, to (1, 1) on it has been
\* clamped to the segment from (0, 0) to (1, 1), which runs the other way
C16_DiagonalReversed ==
    /\ op = "clamp_line_coords"
    /\ args = [x1 |-> 2, y1 |-> 2, x2 |-> 1, y2 |-> 1]
    /\ ~pixel_inside(width, height, 2, 2)
    /\ ret.tag = "some"
    /\ ret.val = <<0, 0, 1, 1>>


---------------------------------------------------------------------------
(* Termination of the drawing operations, under DrawSpec.                  *)

\* the number of iterations of the midpoint loop for the radius r
MidpointSteps(r) == Len(circle_offsets(0 - r, r, 0))

\* C18: every drawing operation terminates: the midpoint loop of draw_circle
\* and draw_circle_solid ends for every radius (within r + 1 iterations), and
\* both chain-walk loops of draw_polygon_solid (start vertex to end vertex,
\* then end vertex back to start vertex) reach their stop vertex for every
\* non-empty vertex list and either clockwise flag, including when the
\* minimum-y and maximum-y vertex are the same vertex.
C18_DrawingTerminates ==
    /\ ret.tag # "hang"
    /\ (op \in {"draw_circle", "draw_circle_solid"} /\ args.r >= 1)
       => ret = Unit /\ MidpointSteps(args.r) \in 1..(args.r + 1)
    /\ (op = "draw_circle" /\ args.r >= 1)
       => Len(drawn) = 8 * MidpointSteps(args.r)
    /\ (op = "draw_polygon_solid" /\ args.vertices # <<>>) => ret = Unit

\* a flat triangle, whose first vertex has both the least and the greatest
\* y, has been drawn with the flag that makes it the start of both chains
C18_FlatTriangleReturns ==
    /\ op = "draw_polygon_solid"
    /\ args.vertices = <<<<0 - 1, 0 - 1>>, <<0, 0 - 1>>, <<1, 0 - 1>>>>
    /\ min_vert_from(args.vertices, 0, 0) = max_vert_from(args.vertices, 0, 0)
    /\ ~args.clockwise
    /\ ret = Unit


---------------------------------------------------------------------------
(* Symmetry of lines, under DrawSpec.                                      *)

\* how many times p occurs in the sequence seq
Count(seq, p) == Cardinality({i \in 1..Len(seq) : seq[i] = p})

\* two results of a drawing operation that end alike and composite the same
\* pixels the same number of times
SameDrawing(r1, r2) ==
    /\ r1.panic = r2.panic
    /\ r1.hang = r2.hang
    /\ \A p \in Range(r1.pixels) \cup Range(r2.pixels) :
          Count(r1.pixels, p) = Count(r2.pixels, p)

\* C19: draw_line is symmetric in its endpoints: for every starting buffer,
\* colour (any alpha) and endpoints, draw_line(x1, y1, x2, y2, c) and
\* draw_line(x2, y2, x1, y1, c) composite the same pixels the same number of
\* times and leave identical buffers.
C19_LineSymmetric ==
    op = "draw_line"
    => /\ SameDrawing(draw_line(width, height, args.x1, args.y1, args.x2, args.y2),
                      draw_line(width, height, args.x2, args.y2, args.x1, args.y1))
       /\ buffer = draw_pixels(before, width, height,
                      draw_line(width, height, args.x2, args.y2,
                                args.x1, args.y1).pixels, args.color)

\* the line from (2, 1) to (-1, -1) has composited (1, 0) and (2, 1); drawn
\* from (-1, -1) to (2, 1) it composites (0, 0), (1, 1) and (2, 1)
C19_ClampedLineDiffers ==
    /\ op = "draw_line"
    /\ args.x1 = 2 /\ args.y1 = 1 /\ args.x2 = 0 - 1 /\ args.y2 = 0 - 1
    /\ ret = Unit
    /\ drawn = <<<<1, 0>>, <<2, 1>>>>
    /\ draw_line(width, height, 0 - 1, 0 - 1, 2, 1) =
          Pixels(<<<<0, 0>>, <<1, 1>>, <<2, 1>>>>)

====
